---- MODULE Spec2Model ----
(***************************************************************************)
(* Model of tracker/motor_control.py: the closestLoopMovement function and *)
(* one MotorController (position in microsteps, microstep mode, direction, *)
(* the GPIO lines it drives) with its setters and its three asynchronous   *)
(* rotation commands.  A rotation coroutine is cut at its suspension       *)
(* points, the two asyncio.sleep calls of step().  SpecDual runs the       *)
(* commands of two controllers as interleaved tasks; SpecTrack is the main *)
(* update loop of tracker/track.py.                                        *)
(***************************************************************************)
EXTENDS Integers, Sequences, FiniteSets, TLC

VARIABLES
    STEPS_PER_REV,  \* self.STEPS_PER_REV, fixed at construction
    gearRatio,      \* self._gearRatio (integer gear ratios only)
    units,          \* self._units
    mstepMode,      \* self._mstepMode
    dir,            \* self._dir: 1 for CW, -1 for CC
    stepPin,        \* level last written to PINS["step"]
    dirPin,         \* level last written to PINS["dir"]
    msPins,         \* levels last written to (PINS["ms1"], PINS["ms2"])
    pc,             \* "idle", "high" (suspended at line 156), "low" (line 159), "done"
    cmd,            \* the operation in progress or just returned
    lastModeSet,    \* <<m>> when the operation before this one was mstepMode = m
    cmdCount,       \* operations issued so far (counted by SpecScenario only)
    call,           \* arguments of a closestLoopMovement evaluation (SpecLoop)
    ret,            \* its result
    alt,            \* a second MotorController, as a record (SpecDual)
    track           \* the main update loop of track.py (SpecTrack)

vars == <<STEPS_PER_REV, gearRatio, units, mstepMode, dir, stepPin, dirPin,
          msPins, pc, cmd, lastModeSet, cmdCount, call, ret, alt, track>>

motor == <<STEPS_PER_REV, gearRatio, units, mstepMode, dir, stepPin, dirPin,
           msPins, pc, cmd, lastModeSet>>

-----------------------------------------------------------------------------
(* Bounds of the model *)

MaxStepsPerRev == 2
MaxGearRatio == 2
MaxMsteps == 2
MaxLimitOffset == 2
MaxCmds == 3
MaxLoop == 6
MaxPos == 7

(* Constructor arguments of the tracker, track.py line 226, and the default
   gear ratio, motor_control.py line 55 *)
TrackerStepsPerRev == 200
DefaultGearRatio == 1

-----------------------------------------------------------------------------
(* Python values *)

None == <<>>
Some(v) == <<v>>

LOW == FALSE
HIGH == TRUE

Abs(x) == IF x < 0 THEN -x ELSE x

\* a % b of Python for b > 0: the result is in 0..b-1 for every integer a
PyMod(a, b) == ((a % b) + b) % b

\* int(a / b) for b > 0: true division, then truncation toward zero
IntDiv(a, b) == IF a >= 0 THEN a \div b ELSE -((-a) \div b)

-----------------------------------------------------------------------------
(* closestLoopMovement, motor_control.py lines 13-30 *)

\* closestLoopMovement with the comparison of line 30 reversed
closestLoopMovementLong(currPos, newPos, loopSize) ==
    LET c == PyMod(currPos, loopSize)
        n == PyMod(newPos, loopSize)
        upper == IF n < c THEN n + loopSize ELSE n
        lower == IF n < c THEN n ELSE n - loopSize
    IN  IF c = n THEN 0
        ELSE IF (c - lower) > (upper - c) THEN lower - c ELSE upper - c

\* closestLoopMovement taking the counter-clockwise way at a tie
closestLoopMovementTieCC(currPos, newPos, loopSize) ==
    LET c == PyMod(currPos, loopSize)
        n == PyMod(newPos, loopSize)
        upper == IF n < c THEN n + loopSize ELSE n
        lower == IF n < c THEN n ELSE n - loopSize
    IN  IF c = n THEN 0
        ELSE IF (c - lower) <= (upper - c) THEN lower - c ELSE upper - c

closestLoopMovement(currPos, newPos, loopSize) ==
    LET c == PyMod(currPos, loopSize)
        n == PyMod(newPos, loopSize)
        upper == IF n < c THEN n + loopSize ELSE n
        lower == IF n < c THEN n ELSE n - loopSize
    IN  IF c = n THEN 0
        ELSE IF (c - lower) < (upper - c) THEN lower - c ELSE upper - c

-----------------------------------------------------------------------------
(* MotorController *)

MSTEP_MODES == (1 :> <<LOW, LOW>>) @@ (2 :> <<HIGH, LOW>>)
               @@ (4 :> <<LOW, HIGH>>) @@ (8 :> <<HIGH, HIGH>>)

\* self.STEPS_PER_REV * self._mstepMode * self._gearRatio
loopSize == STEPS_PER_REV * mstepMode * gearRatio

degreesToMsteps(deg, useGearOut) ==
    IF useGearOut
    THEN IntDiv(deg * STEPS_PER_REV * mstepMode * gearRatio, 360)
    ELSE IntDiv(deg * STEPS_PER_REV * mstepMode, 360)

\* the value the mstepMode setter leaves in _units (lines 131-134)
recalibrate(u, oldMode, newMode) ==
    LET snapped == u + closestLoopMovement(u, u + (newMode - PyMod(u, newMode)), newMode)
    IN  IntDiv(snapped * newMode, oldMode)

\* str.upper() on the direction names the model passes
Upper(s) == CASE s = "cw" -> "CW" [] s = "cc" -> "CC" [] OTHER -> s

\* the limit test of the rotation loop (lines 187-188)
mayStep(isCC, u, ccLimitMstep, cwLimitMstep) ==
    \/ isCC /\ (ccLimitMstep = None \/ (u - 1) > ccLimitMstep[1])
    \/ ~isCC /\ (cwLimitMstep = None \/ (u + 1) < cwLimitMstep[1])

\* the record of an operation: what was asked, the state it started from,
\* the GPIO.output calls it has made, and what it returned
NoCmd == [op |-> "none", arg |-> 0, dirArg |-> "", ccLimit |-> None, cwLimit |-> None,
          useGearOut |-> FALSE, msteps |-> 0,
          ccLimitMstep |-> None, cwLimitMstep |-> None, left |-> 0,
          startUnits |-> 0, startMode |-> 1,
          nStepHigh |-> 0, nStepLow |-> 0, nDir |-> 0,
          nMode |-> 0, repeat |-> FALSE, result |-> "pending"]

NewCmd(op, arg) == [NoCmd EXCEPT !.op = op, !.arg = arg, !.startUnits = units,
                                 !.startMode = mstepMode]

\* MotorController.__init__, lines 54-74
Constructed(stepsPerRev, ratio) ==
    /\ STEPS_PER_REV = stepsPerRev
    /\ gearRatio = ratio
    /\ units = 0
    /\ mstepMode = 1
    /\ dir = 1
    /\ stepPin = LOW
    /\ dirPin = LOW
    /\ msPins = <<LOW, LOW>>
    /\ pc = "idle"
    /\ cmd = NoCmd
    /\ lastModeSet = None

\* a second controller after MotorController.__init__, lines 54-74
AltConstructed(stepsPerRev, ratio) ==
    [STEPS_PER_REV |-> stepsPerRev, gearRatio |-> ratio, units |-> 0,
     mstepMode |-> 1, dir |-> 1, stepPin |-> LOW, dirPin |-> LOW,
     pc |-> "idle", cmd |-> NoCmd]

\* track.py before its main loop is entered
NoTrack == [pc |-> "start", REAL_MOTOR |-> TRUE, targAzi |-> 0, targAlt |-> 0,
            aziTask |-> "none", altTask |-> "none"]

Init ==
    /\ \E s \in 1..MaxStepsPerRev : \E g \in 1..MaxGearRatio : Constructed(s, g)
    /\ cmdCount = 0
    /\ call = None
    /\ ret = None
    /\ alt = AltConstructed(TrackerStepsPerRev, DefaultGearRatio)
    /\ track = NoTrack

\* mstepMode setter, lines 121-135
SetMstepMode(newMode) ==
    /\ pc = "idle"
    /\ LET c == [NewCmd("mstepMode", newMode) EXCEPT
                    !.repeat = (lastModeSet = Some(newMode))]
       IN  IF newMode \notin DOMAIN MSTEP_MODES
           THEN /\ cmd' = [c EXCEPT !.result = "KeyError"]
                /\ lastModeSet' = None
                /\ UNCHANGED <<units, mstepMode, msPins>>
           ELSE /\ msPins' = MSTEP_MODES[newMode]
                /\ units' = recalibrate(units, mstepMode, newMode)
                /\ mstepMode' = newMode
                /\ cmd' = [c EXCEPT !.nMode = 1, !.result = "None"]
                /\ lastModeSet' = Some(newMode)
    /\ pc' = "done"
    /\ UNCHANGED <<STEPS_PER_REV, gearRatio, dir, stepPin, dirPin>>

\* the direction setter taking every name other than CW for CC
SetDirectionElseCC(newDir) ==
    /\ pc = "idle"
    /\ LET c == [NewCmd("direction", 0) EXCEPT !.dirArg = newDir]
       IN  IF Upper(newDir) = "CW"
           THEN /\ dirPin' = LOW
                /\ dir' = 1
                /\ cmd' = [c EXCEPT !.nDir = 1, !.result = "None"]
           ELSE /\ dirPin' = HIGH
                /\ dir' = -1
                /\ cmd' = [c EXCEPT !.nDir = 1, !.result = "None"]
    /\ pc' = "done"
    /\ lastModeSet' = None
    /\ UNCHANGED <<STEPS_PER_REV, gearRatio, units, mstepMode, stepPin, msPins>>

\* direction setter, lines 142-151
SetDirection(newDir) ==
    /\ pc = "idle"
    /\ LET c == [NewCmd("direction", 0) EXCEPT !.dirArg = newDir]
       IN  CASE Upper(newDir) = "CW" ->
                  /\ dirPin' = LOW
                  /\ dir' = 1
                  /\ cmd' = [c EXCEPT !.nDir = 1, !.result = "None"]
             [] Upper(newDir) = "CC" ->
                  /\ dirPin' = HIGH
                  /\ dir' = -1
                  /\ cmd' = [c EXCEPT !.nDir = 1, !.result = "None"]
             [] OTHER ->
                  /\ cmd' = [c EXCEPT !.result = "ValueError"]
                  /\ UNCHANGED <<dir, dirPin>>
    /\ pc' = "done"
    /\ lastModeSet' = None
    /\ UNCHANGED <<STEPS_PER_REV, gearRatio, units, mstepMode, stepPin, msPins>>

\* the loop of rotateMsteps reporting True when a limit stops it
loopPassLimitTrue(c) ==
    IF c.left = 0
    THEN /\ cmd' = [c EXCEPT !.result = "True"]
         /\ pc' = "done"
         /\ UNCHANGED stepPin
    ELSE IF mayStep(c.msteps < 0, units, c.ccLimitMstep, c.cwLimitMstep)
    THEN /\ stepPin' = HIGH
         /\ cmd' = [c EXCEPT !.left = @ - 1, !.nStepHigh = @ + 1]
         /\ pc' = "high"
    ELSE /\ cmd' = [c EXCEPT !.result = "True"]
         /\ pc' = "done"
         /\ UNCHANGED stepPin

\* the loop of rotateMsteps sleeping again, instead of returning, when a
\* limit refuses the step
loopPassWaitAtLimit(c) ==
    IF c.left = 0
    THEN /\ cmd' = [c EXCEPT !.result = "True"]
         /\ pc' = "done"
         /\ UNCHANGED stepPin
    ELSE IF mayStep(c.msteps < 0, units, c.ccLimitMstep, c.cwLimitMstep)
    THEN /\ stepPin' = HIGH
         /\ cmd' = [c EXCEPT !.left = @ - 1, !.nStepHigh = @ + 1]
         /\ pc' = "high"
    ELSE /\ cmd' = c
         /\ pc' = "low"
         /\ UNCHANGED stepPin

\* one pass of the for loop of rotateMsteps (lines 186-199) up to the first
\* suspension of step(): c is the command record on entry
loopPass(c) ==
    IF c.left = 0
    THEN /\ cmd' = [c EXCEPT !.result = "True"]
         /\ pc' = "done"
         /\ UNCHANGED stepPin
    ELSE IF mayStep(c.msteps < 0, units, c.ccLimitMstep, c.cwLimitMstep)
    THEN /\ stepPin' = HIGH
         /\ cmd' = [c EXCEPT !.left = @ - 1, !.nStepHigh = @ + 1]
         /\ pc' = "high"
    ELSE /\ cmd' = [c EXCEPT !.result = "False"]
         /\ pc' = "done"
         /\ UNCHANGED stepPin

\* rotateMsteps with the direction assignment ahead of the zero test
rotateMstepsDirFirst(c0, msteps, ccLimitMstep, cwLimitMstep) ==
    LET c == [c0 EXCEPT !.msteps = msteps, !.ccLimitMstep = ccLimitMstep,
                        !.cwLimitMstep = cwLimitMstep, !.nDir = 1]
    IN  /\ dir' = IF msteps < 0 THEN -1 ELSE 1
        /\ dirPin' = IF msteps < 0 THEN HIGH ELSE LOW
        /\ IF msteps = 0
           THEN /\ cmd' = [c EXCEPT !.result = "True"]
                /\ pc' = "done"
                /\ UNCHANGED stepPin
           ELSE loopPass([c EXCEPT !.left = Abs(msteps)])

\* rotateMsteps from its call to its first suspension or return (lines 175-193)
rotateMsteps(c0, msteps, ccLimitMstep, cwLimitMstep) ==
    LET c == [c0 EXCEPT !.msteps = msteps, !.ccLimitMstep = ccLimitMstep,
                        !.cwLimitMstep = cwLimitMstep]
    IN  IF msteps = 0
        THEN /\ cmd' = [c EXCEPT !.result = "True"]
             /\ pc' = "done"
             /\ UNCHANGED <<dir, dirPin, stepPin>>
        ELSE /\ dir' = IF msteps < 0 THEN -1 ELSE 1
             /\ dirPin' = IF msteps < 0 THEN HIGH ELSE LOW
             /\ loopPass([c EXCEPT !.nDir = 1, !.left = Abs(msteps)])

\* the arguments rotate and rotateTo hand to rotateMsteps (lines 224-226 and
\* 252-254); evaluating degreesToMsteps(None) raises TypeError
limitArgs(ccLimit, cwLimit, useGearOut) ==
    IF ccLimit = None THEN [error |-> FALSE, cc |-> None, cw |-> None]
    ELSE IF cwLimit = None THEN [error |-> TRUE, cc |-> None, cw |-> None]
    ELSE [error |-> FALSE,
          cc |-> Some(degreesToMsteps(ccLimit[1], useGearOut)),
          cw |-> Some(degreesToMsteps(cwLimit[1], useGearOut))]

\* the common tail of rotate and rotateTo (lines 218-226, 246-254)
rotateBy(c, relMsteps, ccLimit, cwLimit, useGearOut) ==
    LET a == limitArgs(ccLimit, cwLimit, useGearOut)
    IN  IF relMsteps = 0
        THEN /\ cmd' = [c EXCEPT !.result = "True"]
             /\ pc' = "done"
             /\ UNCHANGED <<dir, dirPin, stepPin>>
        ELSE IF a.error
        THEN /\ cmd' = [c EXCEPT !.msteps = relMsteps, !.result = "TypeError"]
             /\ pc' = "done"
             /\ UNCHANGED <<dir, dirPin, stepPin>>
        ELSE rotateMsteps(c, relMsteps, a.cc, a.cw)

\* await rotateMsteps(msteps, ccLimitMstep, cwLimitMstep), lines 161-199
RotateMsteps(msteps, ccLimitMstep, cwLimitMstep) ==
    /\ pc = "idle"
    /\ rotateMsteps(NewCmd("rotateMsteps", msteps), msteps, ccLimitMstep, cwLimitMstep)
    /\ lastModeSet' = None
    /\ UNCHANGED <<STEPS_PER_REV, gearRatio, units, mstepMode, msPins>>

\* await rotate(deg, ccLimit, cwLimit, useGearOut), lines 201-226
Rotate(deg, ccLimit, cwLimit, useGearOut) ==
    /\ pc = "idle"
    /\ rotateBy([NewCmd("rotate", deg) EXCEPT !.ccLimit = ccLimit,
                    !.cwLimit = cwLimit, !.useGearOut = useGearOut],
                degreesToMsteps(deg, useGearOut), ccLimit, cwLimit, useGearOut)
    /\ lastModeSet' = None
    /\ UNCHANGED <<STEPS_PER_REV, gearRatio, units, mstepMode, msPins>>

\* await rotateTo(targetDeg, ccLimit, cwLimit, useGearOut), lines 228-254
RotateTo(targetDeg, ccLimit, cwLimit, useGearOut) ==
    /\ pc = "idle"
    /\ rotateBy([NewCmd("rotateTo", targetDeg) EXCEPT !.ccLimit = ccLimit,
                    !.cwLimit = cwLimit, !.useGearOut = useGearOut],
                closestLoopMovement(units, degreesToMsteps(targetDeg, useGearOut),
                                    loopSize),
                ccLimit, cwLimit, useGearOut)
    /\ lastModeSet' = None
    /\ UNCHANGED <<STEPS_PER_REV, gearRatio, units, mstepMode, msPins>>

\* step() counting every pulse as a clockwise step
StepLowAlwaysCW ==
    /\ pc = "high"
    /\ stepPin' = LOW
    /\ units' = PyMod(units + 1, loopSize)
    /\ cmd' = [cmd EXCEPT !.nStepLow = @ + 1]
    /\ pc' = "low"
    /\ UNCHANGED <<STEPS_PER_REV, gearRatio, mstepMode, dir, dirPin, msPins, lastModeSet>>

\* step() resumed after its first sleep: lines 157-159
StepLow ==
    /\ pc = "high"
    /\ stepPin' = LOW
    /\ units' = PyMod(units + dir, loopSize)
    /\ cmd' = [cmd EXCEPT !.nStepLow = @ + 1]
    /\ pc' = "low"
    /\ UNCHANGED <<STEPS_PER_REV, gearRatio, mstepMode, dir, dirPin, msPins, lastModeSet>>

\* step() resumed after its second sleep: back in the loop of rotateMsteps
StepDone ==
    /\ pc = "low"
    /\ loopPass(cmd)
    /\ UNCHANGED <<STEPS_PER_REV, gearRatio, units, mstepMode, dir, dirPin, msPins,
                   lastModeSet>>

\* the caller takes the result; the controller holds no command state
Return ==
    /\ pc = "done"
    /\ pc' = "idle"
    /\ cmd' = NoCmd
    /\ UNCHANGED <<STEPS_PER_REV, gearRatio, units, mstepMode, dir, stepPin, dirPin,
                   msPins, lastModeSet>>

-----------------------------------------------------------------------------------------------------------------------------------------------------
(* Inputs of the general specification: a controller with a small loop *)

other == <<cmdCount, call, ret, alt, track>>

ModeInputs == {1, 2, 4, 8, 3}
DirInputs == {"CW", "CC", "cc", "left"}

\* limits of rotateMsteps, taken around the current position
MstepLimitInputs ==
    {<<None, None>>} \cup
    UNION {{<<Some(units - k), None>>, <<None, Some(units + k)>>,
            <<Some(units - k), Some(units + k)>>} : k \in -1..MaxLimitOffset}

DegInputs == {-90, 0, 45, 90}
TargetDegInputs == {0, 90, 350}

\* <<ccLimit, cwLimit, useGearOut>> of rotate and rotateTo
DegLimitInputs ==
    {<<None, None, TRUE>>, <<None, None, FALSE>>, <<None, Some(90), TRUE>>,
     <<Some(0), None, TRUE>>, <<Some(0), Some(90), TRUE>>}

Next ==
    \/ \E m \in ModeInputs : SetMstepMode(m) /\ UNCHANGED other
    \/ \E d \in DirInputs : SetDirection(d) /\ UNCHANGED other
    \/ \E n \in -MaxMsteps..MaxMsteps : \E l \in MstepLimitInputs :
          RotateMsteps(n, l[1], l[2]) /\ UNCHANGED other
    \/ \E d \in DegInputs : \E l \in DegLimitInputs :
          Rotate(d, l[1], l[2], l[3]) /\ UNCHANGED other
    \/ \E d \in TargetDegInputs : \E l \in DegLimitInputs :
          RotateTo(d, l[1], l[2], l[3]) /\ UNCHANGED other
    \/ StepLow /\ UNCHANGED other
    \/ StepDone /\ UNCHANGED other
    \/ Return /\ UNCHANGED other

Spec == Init /\ [][Next]_vars

-----------------------------------------------------------------------------
(* The tracker's motor, 200 steps per revolution, driven through a bounded
   number of operations *)

InitScenario ==
    /\ Constructed(TrackerStepsPerRev, DefaultGearRatio)
    /\ cmdCount = 0
    /\ call = None
    /\ ret = None
    /\ alt = AltConstructed(TrackerStepsPerRev, DefaultGearRatio)
    /\ track = NoTrack

Count ==
    /\ cmdCount < MaxCmds
    /\ cmdCount' = cmdCount + 1
    /\ UNCHANGED <<call, ret, alt, track>>

ScenarioLimitInputs ==
    {<<None, None, TRUE>>, <<None, Some(90), TRUE>>, <<Some(0), Some(90), TRUE>>}

NextScenario ==
    \/ \E m \in {1, 8} : SetMstepMode(m) /\ Count
    \/ \E d \in {5, 89} : \E l \in ScenarioLimitInputs :
          Rotate(d, l[1], l[2], l[3]) /\ Count
    \/ \E d \in {90, 350} : RotateTo(d, None, None, TRUE) /\ Count
    \/ StepLow /\ UNCHANGED other
    \/ StepDone /\ UNCHANGED other
    \/ Return /\ UNCHANGED other

SpecScenario == InitScenario /\ [][NextScenario]_vars

-----------------------------------------------------------------------------
(* closestLoopMovement on its own, over a range of arguments *)

InitLoop ==
    /\ Constructed(TrackerStepsPerRev, DefaultGearRatio)
    /\ cmdCount = 0
    /\ call \in {<<c, n, l>> : c \in -MaxPos..MaxPos, n \in -MaxPos..MaxPos, l \in 1..MaxLoop}
    /\ ret = None
    /\ alt = AltConstructed(TrackerStepsPerRev, DefaultGearRatio)
    /\ track = NoTrack

Evaluate ==
    /\ ret = None
    /\ ret' = Some(closestLoopMovement(call[1], call[2], call[3]))
    /\ UNCHANGED <<motor, cmdCount, call, alt, track>>

NextLoop == Evaluate

SpecLoop == InitLoop /\ [][NextLoop]_vars

-----------------------------------------------------------------------------
(* Two controllers with a rotateMsteps command each, running as two tasks of
   one event loop: their coroutines interleave at the sleeps of step() *)

altLoopSize(a) == a.STEPS_PER_REV * a.mstepMode * a.gearRatio

\* one pass of the loop of rotateMsteps (lines 186-199) on controller a
altLoopPass(a, c) ==
    IF c.left = 0
    THEN [a EXCEPT !.cmd = [c EXCEPT !.result = "True"], !.pc = "done"]
    ELSE IF mayStep(c.msteps < 0, a.units, c.ccLimitMstep, c.cwLimitMstep)
    THEN [a EXCEPT !.stepPin = HIGH,
                   !.cmd = [c EXCEPT !.left = @ - 1, !.nStepHigh = @ + 1],
                   !.pc = "high"]
    ELSE [a EXCEPT !.cmd = [c EXCEPT !.result = "False"], !.pc = "done"]

\* rotateMsteps on controller a up to its first suspension or return
altRotateMsteps(a, msteps, ccLimitMstep, cwLimitMstep) ==
    LET c == [NoCmd EXCEPT !.op = "rotateMsteps", !.arg = msteps,
                           !.startUnits = a.units, !.startMode = a.mstepMode,
                           !.msteps = msteps, !.ccLimitMstep = ccLimitMstep,
                           !.cwLimitMstep = cwLimitMstep]
    IN  IF msteps = 0
        THEN [a EXCEPT !.cmd = [c EXCEPT !.result = "True"], !.pc = "done"]
        ELSE altLoopPass([a EXCEPT !.dir = IF msteps < 0 THEN -1 ELSE 1,
                                   !.dirPin = IF msteps < 0 THEN HIGH ELSE LOW],
                         [c EXCEPT !.nDir = 1, !.left = Abs(msteps)])

\* step() of controller a reading the direction of the other controller
altStepLowSharedDir(a) ==
    [a EXCEPT !.stepPin = LOW,
              !.units = PyMod(a.units + dir, altLoopSize(a)),
              !.cmd = [a.cmd EXCEPT !.nStepLow = @ + 1],
              !.pc = "low"]

\* step() of controller a resumed after its first sleep (lines 157-159)
altStepLow(a) ==
    [a EXCEPT !.stepPin = LOW,
              !.units = PyMod(a.units + a.dir, altLoopSize(a)),
              !.cmd = [a.cmd EXCEPT !.nStepLow = @ + 1],
              !.pc = "low"]

InitDual ==
    /\ \E s \in 1..MaxStepsPerRev : \E g \in 1..MaxGearRatio :
          /\ Constructed(s, g)
          /\ alt = AltConstructed(s, g)
    /\ cmdCount = 0
    /\ call = None
    /\ ret = None
    /\ track = NoTrack

\* limits of the two commands: none, or both at DualLimitOffset microsteps
\* from the position u the command starts from
DualLimitOffset == 2

\* pairs of commands started one after the other
DualRounds == 2

\* counts of the second controller's command
AltMstepInputs == {-2, 0, 1}

DualLimitInputs(u) ==
    {<<None, None>>, <<Some(u - DualLimitOffset), Some(u + DualLimitOffset)>>}

\* both commands are started; each runs to its first suspension
Gather(n1, l1, n2, l2) ==
    /\ pc = "idle"
    /\ alt.pc = "idle"
    /\ cmdCount < DualRounds
    /\ cmdCount' = cmdCount + 1
    /\ RotateMsteps(n1, l1[1], l1[2])
    /\ alt' = altRotateMsteps(alt, n2, l2[1], l2[2])
    /\ UNCHANGED <<call, ret, track>>

AltStepLow ==
    /\ alt.pc = "high"
    /\ alt' = altStepLow(alt)
    /\ UNCHANGED <<motor, cmdCount, call, ret, track>>

AltStepDone ==
    /\ alt.pc = "low"
    /\ alt' = altLoopPass(alt, alt.cmd)
    /\ UNCHANGED <<motor, cmdCount, call, ret, track>>

\* both commands have returned; their results are taken
Join ==
    /\ alt.pc = "done"
    /\ Return
    /\ alt' = [alt EXCEPT !.pc = "idle", !.cmd = NoCmd]
    /\ UNCHANGED <<cmdCount, call, ret, track>>

NextDual ==
    \/ \E n1 \in -MaxMsteps..MaxMsteps : \E l1 \in DualLimitInputs(units) :
       \E n2 \in AltMstepInputs : \E l2 \in DualLimitInputs(alt.units) :
          Gather(n1, l1, n2, l2)
    \/ StepLow /\ UNCHANGED other
    \/ StepDone /\ UNCHANGED other
    \/ AltStepLow
    \/ AltStepDone
    \/ Join

SpecDual == InitDual /\ [][NextDual]_vars

\* the event loop resumes every task whose sleep has ended, and the caller
\* takes the results once both tasks have returned
SpecDualFair ==
    /\ SpecDual
    /\ WF_vars(StepLow /\ UNCHANGED other)
    /\ WF_vars(StepDone /\ UNCHANGED other)
    /\ WF_vars(AltStepLow)
    /\ WF_vars(AltStepDone)
    /\ WF_vars(Join)

-----------------------------------------------------------------------------
(* The main update loop of track.py, lines 236-254, over its two controllers *)

InitTrack ==
    /\ Constructed(TrackerStepsPerRev, DefaultGearRatio)
    /\ alt = AltConstructed(TrackerStepsPerRev, DefaultGearRatio)
    /\ cmdCount = 0
    /\ call = None
    /\ ret = None
    /\ track \in {[NoTrack EXCEPT !.REAL_MOTOR = r] : r \in BOOLEAN}

\* lines 9-18: without REAL_MOTOR the module imports a function rotate that
\* motor_control.py does not define, and stops there
Import ==
    /\ track.pc = "start"
    /\ track' = [track EXCEPT !.pc = IF track.REAL_MOTOR THEN "poll" ELSE "ImportError"]
    /\ UNCHANGED <<motor, cmdCount, call, ret, alt>>

\* targAzi, targAlt = getData(), line 239
Poll(targAzi, targAlt) ==
    /\ track.pc = "poll"
    /\ cmdCount < MaxCmds
    /\ cmdCount' = cmdCount + 1
    /\ track' = [track EXCEPT !.pc = "azi", !.targAzi = targAzi, !.targAlt = targAlt]
    /\ UNCHANGED <<motor, call, ret, alt>>

\* aziMotor.rotate(targAzi), line 244: calling the async method makes a
\* coroutine object; nothing awaits or schedules it, so its body never runs
CallAzi ==
    /\ track.pc = "azi"
    /\ track' = [track EXCEPT !.pc = "alt", !.aziTask = "created"]
    /\ UNCHANGED <<motor, cmdCount, call, ret, alt>>

\* altMotor.rotate(targAlt, ccLimit=0, cwLimit=90), line 245
CallAlt ==
    /\ track.pc = "alt"
    /\ track' = [track EXCEPT !.pc = "sleep", !.altTask = "created"]
    /\ UNCHANGED <<motor, cmdCount, call, ret, alt>>

\* time.sleep(UPDATE_DELAY), line 251, and back to the head of the loop
Sleep ==
    /\ track.pc = "sleep"
    /\ track' = [track EXCEPT !.pc = "poll"]
    /\ UNCHANGED <<motor, cmdCount, call, ret, alt>>

AziTargetInputs == {0, 90, 180, 350}
AltTargetInputs == {0, 45, 90}

NextTrack ==
    \/ Import
    \/ \E a \in AziTargetInputs : \E h \in AltTargetInputs : Poll(a, h)
    \/ CallAzi
    \/ CallAlt
    \/ Sleep

SpecTrack == InitTrack /\ [][NextTrack]_vars

-----------------------------------------------------------------------------
(* calcShortestTurn of track.py, lines 147-163, on its own *)

\* <<deg, dir>> as the function returns them
calcShortestTurn(currAzi, targAzi) ==
    LET upper == IF targAzi < currAzi THEN targAzi + 360 ELSE targAzi
        lower == IF targAzi < currAzi THEN targAzi ELSE targAzi - 360
        deg == IF (currAzi - lower) < (upper - currAzi)
               THEN currAzi - lower ELSE upper - currAzi
    IN  <<deg, IF deg <= 0 THEN "cc" ELSE "cw">>

\* azimuths spread over [0, 360)
MaxTurnPoints == 12

TurnInputs == {(360 * k) \div MaxTurnPoints : k \in 0..(MaxTurnPoints - 1)}

InitTurn ==
    /\ Constructed(TrackerStepsPerRev, DefaultGearRatio)
    /\ alt = AltConstructed(TrackerStepsPerRev, DefaultGearRatio)
    /\ cmdCount = 0
    /\ call \in {<<c, t>> : c \in TurnInputs, t \in TurnInputs}
    /\ ret = None
    /\ track = NoTrack

EvaluateTurn ==
    /\ ret = None
    /\ ret' = Some(calcShortestTurn(call[1], call[2]))
    /\ UNCHANGED <<motor, cmdCount, call, alt, track>>

NextTurn == EvaluateTurn

SpecTurn == InitTurn /\ [][NextTurn]_vars

-----------------------------------------------------------------------------
(* Properties *)

Rotations == {"rotateMsteps", "rotate", "rotateTo"}

Sign(x) == IF x < 0 THEN -1 ELSE IF x > 0 THEN 1 ELSE 0

\* C1: the position is always inside the loop,
\* 0 <= units < stepsPerRev * mstepMode * gearRatio, after construction,
\* after every step and after every mode change.
C1_UnitsInRange == 0 <= units /\ units < loopSize

\* C2: closestLoopMovement returns a movement d of at most half the loop
\* that leads from current to target modulo the loop size, and 0 when the
\* two are equal modulo the loop size.
C2_ClosestIsShortest ==
    ret # None =>
        LET d == ret[1]
            c == call[1]
            n == call[2]
            l == call[3]
        IN  /\ 2 * Abs(d) <= l
            /\ PyMod(c + d, l) = PyMod(n, l)
            /\ (PyMod(c, l) = PyMod(n, l) => d = 0)

\* a negative current position, and a counter-clockwise answer
C2_Witness == ret # None /\ ret[1] < 0 /\ call[1] < 0 /\ call[3] > 2

\* C3: a counter-clockwise rotation with limit L that starts at or above L
\* never has units below L, and a clockwise rotation with limit U that starts
\* at or below U never has units above U, in any state of the command.
C3_NoOvershoot ==
    /\ (cmd.op \in Rotations /\ cmd.msteps < 0 /\ cmd.ccLimitMstep # None
            /\ cmd.startUnits >= cmd.ccLimitMstep[1])
       => units >= cmd.ccLimitMstep[1]
    /\ (cmd.op \in Rotations /\ cmd.msteps > 0 /\ cmd.cwLimitMstep # None
            /\ cmd.startUnits <= cmd.cwLimitMstep[1])
       => units <= cmd.cwLimitMstep[1]

\* C4: the two limits of rotate and rotateTo are independently optional: with
\* only cwLimit given the clockwise limit is enforced; with only ccLimit given
\* the command runs without error, enforces the counter-clockwise limit and
\* has no clockwise limit.
C4_LimitsIndependent ==
    (cmd.op \in {"rotate", "rotateTo"} /\ cmd.msteps # 0) =>
        /\ (cmd.ccLimit = None /\ cmd.cwLimit # None) =>
              LET lim == degreesToMsteps(cmd.cwLimit[1], cmd.useGearOut)
              IN  (cmd.msteps > 0 /\ cmd.startUnits <= lim) => units <= lim
        /\ (cmd.ccLimit # None /\ cmd.cwLimit = None) =>
              LET lim == degreesToMsteps(cmd.ccLimit[1], cmd.useGearOut)
              IN  /\ cmd.result # "TypeError"
                  /\ cmd.cwLimitMstep = None
                  /\ (cmd.msteps < 0 /\ cmd.startUnits >= lim) => units >= lim

\* C5: with 200 steps per revolution, mode 1, gear ratio 1, units = 49 and a
\* clockwise limit of 90 degrees, rotate(+5 degrees) ends with units = 50 and
\* returns False.
C5_ClockwiseLimitHalts ==
    (pc = "done" /\ cmd.op = "rotate" /\ cmd.arg = 5 /\ cmd.cwLimit = Some(90)
        /\ STEPS_PER_REV = 200 /\ gearRatio = 1 /\ cmd.startMode = 1
        /\ cmd.startUnits = 49)
    => (units = 50 /\ cmd.result = "False")

\* C6: a mode change rescales the position: afterwards mstepMode is the new
\* mode, the position in full steps differs from the one before by less than
\* one microstep of the new mode, and when units * newMode / oldMode is an
\* integer the new units is exactly that value.
C6_ModeChangeRescales ==
    (pc = "done" /\ cmd.op = "mstepMode" /\ cmd.result = "None") =>
        /\ mstepMode = cmd.arg
        /\ Abs(units * cmd.startMode - cmd.startUnits * cmd.arg) < cmd.startMode
        /\ ((cmd.startUnits * cmd.arg) % cmd.startMode = 0
               => units = (cmd.startUnits * cmd.arg) \div cmd.startMode)

\* C7: assigning mstepMode = m a second time, right after assigning
\* mstepMode = m, leaves units and mstepMode as the first assignment left them.
C7_ModeSetIdempotent ==
    (pc = "done" /\ cmd.op = "mstepMode" /\ cmd.result = "None" /\ cmd.repeat)
    => (units = cmd.startUnits /\ mstepMode = cmd.startMode)

\* the relative microstep count of the rotation command recorded in c, from
\* the state in which it is called
RelCount(c) ==
    CASE c.op = "rotateMsteps" -> c.arg
      [] c.op = "rotate" -> degreesToMsteps(c.arg, c.useGearOut)
      [] c.op = "rotateTo" ->
            closestLoopMovement(units, degreesToMsteps(c.arg, c.useGearOut), loopSize)

\* C8: a rotation command whose relative microstep count is 0 makes no
\* GPIO.output call, leaves units, direction, mode and every line as they
\* were, and returns True at once.
C8_ZeroCountIsNoOp ==
    [][(pc = "idle" /\ cmd'.op \in Rotations /\ RelCount(cmd') = 0) =>
           /\ pc' = "done"
           /\ cmd'.result = "True"
           /\ cmd'.nStepHigh = 0 /\ cmd'.nStepLow = 0
           /\ cmd'.nDir = 0 /\ cmd'.nMode = 0
           /\ UNCHANGED <<units, dir, mstepMode, stepPin, dirPin, msPins>>]_vars

\* rotateMsteps(0) returned while the cached direction is counter-clockwise
C8_Witness ==
    /\ pc = "done"
    /\ cmd.op = "rotateMsteps"
    /\ cmd.arg = 0
    /\ cmd.result = "True"
    /\ dir = -1
    /\ units > 0

\* the counter-clockwise limit a rotation command was given, in microsteps
CcLimitOf(c) ==
    IF c.op = "rotateMsteps" THEN c.ccLimitMstep
    ELSE IF c.ccLimit = None THEN None
    ELSE Some(degreesToMsteps(c.ccLimit[1], c.useGearOut))

\* C9: a command asking for counter-clockwise movement whose counter-clockwise
\* limit equals the position it starts from stops at once: no step pulse,
\* units unchanged, result False.
C9_HaltsAtLimit ==
    (cmd.op \in Rotations /\ cmd.msteps < 0 /\ CcLimitOf(cmd) = Some(cmd.startUnits))
    => /\ pc = "done"
       /\ cmd.result = "False"
       /\ cmd.nStepHigh = 0
       /\ cmd.nStepLow = 0
       /\ units = cmd.startUnits

\* C10: rotateTo without limits takes exactly |closestLoopMovement(units,
\* degreesToMsteps(targetDeg), loopSize)| steps, each in the direction of that
\* value's sign, returns True and ends with units = degreesToMsteps(targetDeg)
\* mod loopSize; with 200 steps per revolution, mode 1 and gear ratio 1,
\* rotateTo(90) from 0 takes 50 clockwise steps to units = 50 and rotateTo(350)
\* from 50 takes 56 counter-clockwise steps to a position in 0..199.
C10_RotateToReachesTarget ==
    (cmd.op = "rotateTo" /\ cmd.ccLimit = None /\ cmd.cwLimit = None) =>
        LET target == degreesToMsteps(cmd.arg, cmd.useGearOut)
            d == closestLoopMovement(cmd.startUnits, target, loopSize)
            scenario == STEPS_PER_REV = 200 /\ gearRatio = 1 /\ mstepMode = 1
        IN  /\ (d # 0) => dir = Sign(d)
            /\ units = PyMod(cmd.startUnits + Sign(d) * cmd.nStepLow, loopSize)
            /\ pc = "done" =>
                  /\ cmd.nStepHigh = Abs(d)
                  /\ cmd.nStepLow = Abs(d)
                  /\ cmd.result = "True"
                  /\ units = PyMod(target, loopSize)
                  /\ (scenario /\ cmd.startUnits = 0 /\ cmd.arg = 90)
                        => (cmd.nStepLow = 50 /\ dir = 1 /\ units = 50)
                  /\ (scenario /\ cmd.startUnits = 50 /\ cmd.arg = 350)
                        => (cmd.nStepLow = 56 /\ dir = -1 /\ units \in 0..199)

\* C11: rotateMsteps(n) returns True exactly when all |n| steps were executed
\* and False exactly when a limit stopped it after k < |n| steps; either way
\* units is the start position moved by the steps executed, each modulo the
\* loop size, with no rollback, and every pulse begun was completed.
C11_ResultTellsCompletion ==
    (pc = "done" /\ cmd.op = "rotateMsteps") =>
        LET n == cmd.msteps
            k == cmd.nStepLow
        IN  /\ cmd.result \in {"True", "False"}
            /\ cmd.nStepHigh = k
            /\ (cmd.result = "True") <=> (k = Abs(n))
            /\ (cmd.result = "False") <=> (k < Abs(n))
            /\ (cmd.result = "False") =>
                  ~mayStep(n < 0, units, cmd.ccLimitMstep, cmd.cwLimitMstep)
            /\ units = IF k = 0 THEN cmd.startUnits
                       ELSE PyMod(cmd.startUnits + Sign(n) * k, loopSize)

\* a command of two steps that a limit stopped after the first
C11_Witness ==
    /\ pc = "done"
    /\ cmd.op = "rotateMsteps"
    /\ cmd.result = "False"
    /\ Abs(cmd.msteps) = 2
    /\ cmd.nStepLow = 1
    /\ units # cmd.startUnits

\* C12: assigning a microstep mode outside {1, 2, 4, 8} raises KeyError and
\* assigning a direction that is neither CW nor CC in any letter case raises
\* ValueError; either makes no GPIO.output call and leaves units, mstepMode,
\* the cached direction and every line as they were.
C12_InvalidSettingRejected ==
    [][(/\ pc = "idle"
        /\ \/ cmd'.op = "mstepMode" /\ cmd'.arg \notin {1, 2, 4, 8}
           \/ cmd'.op = "direction" /\ Upper(cmd'.dirArg) \notin {"CW", "CC"})
       => /\ pc' = "done"
          /\ cmd'.result = (IF cmd'.op = "mstepMode" THEN "KeyError" ELSE "ValueError")
          /\ cmd'.nMode = 0 /\ cmd'.nDir = 0
          /\ cmd'.nStepHigh = 0 /\ cmd'.nStepLow = 0
          /\ UNCHANGED <<units, mstepMode, dir, stepPin, dirPin, msPins>>]_vars

\* an unknown direction name rejected while the motor is set counter-clockwise
\* in mode 2, away from position 0
C12_Witness ==
    /\ pc = "done"
    /\ cmd.op = "direction"
    /\ cmd.dirArg = "left"
    /\ cmd.result = "ValueError"
    /\ dir = -1
    /\ dirPin = HIGH
    /\ mstepMode = 2
    /\ units > 0

\* C13: a direction signal is written only when the direction asked for
\* differs from the cached one: setting the direction to the value it already
\* has, by the setter or at the start of a rotation command, makes no
\* GPIO.output call.
C13_SameDirectionIsNoOp ==
    [][(pc = "idle" /\ cmd'.nDir > 0) => dir' # dir]_vars

\* the terminal states of a rotation command
Terminal == {"Completed", "LimitHalted"}

\* C15: in the tracking loop the next target poll, and with it the next pair
\* of rotation commands, comes only after both controllers' commands of the
\* cycle before have reached a terminal state.
C15_PollAfterBothTerminal ==
    (track.pc = "poll" /\ cmdCount > 0) =>
        (track.aziTask \in Terminal /\ track.altTask \in Terminal)

\* C16: closestLoopMovement breaks the tie of two opposite positions the same
\* way every time: for an even loop size and |target - current| = loopSize/2
\* the result is +loopSize/2, whichever of the two positions is the larger.
C16_TieGoesClockwise ==
    (ret # None /\ call[3] % 2 = 0 /\ 2 * Abs(call[2] - call[1]) = call[3])
    => 2 * ret[1] = call[3]

\* a tie with the target below the current position, evaluated
C16_Witness ==
    /\ ret # None
    /\ call[3] = 6
    /\ call[1] = 4
    /\ call[2] = 1
    /\ ret[1] = 3

\* C17: the limits are inclusive: a rotateMsteps command that starts inside
\* the limits and whose target equals ccLimitMstep (moving counter-clockwise)
\* or cwLimitMstep (moving clockwise) executes all its steps, ends on the
\* limit and returns True.
C17_LimitIsInclusive ==
    (/\ pc = "done"
     /\ cmd.op = "rotateMsteps"
     /\ cmd.startUnits \in 0..(loopSize - 1)
     /\ (cmd.ccLimitMstep # None => cmd.ccLimitMstep[1] \in 0..cmd.startUnits)
     /\ (cmd.cwLimitMstep # None => cmd.cwLimitMstep[1] \in cmd.startUnits..(loopSize - 1))
     /\ \/ cmd.msteps < 0 /\ cmd.ccLimitMstep = Some(cmd.startUnits + cmd.msteps)
        \/ cmd.msteps > 0 /\ cmd.cwLimitMstep = Some(cmd.startUnits + cmd.msteps))
    => /\ cmd.result = "True"
       /\ cmd.nStepLow = Abs(cmd.msteps)
       /\ units = cmd.startUnits + cmd.msteps

\* C18: in every rotation command with a non-zero relative count the direction
\* signal is written exactly once, with the level of the count's sign, before
\* the first step pulse, and never between step pulses: in every state of such
\* a command one direction write has been made and the line and the cached
\* direction agree with the sign.
C18_DirectionSetOnce ==
    (cmd.op \in Rotations /\ cmd.msteps # 0) =>
        /\ cmd.nDir = 1
        /\ dir = Sign(cmd.msteps)
        /\ dirPin = (IF cmd.msteps < 0 THEN HIGH ELSE LOW)

\* C19: every step() writes one high and then one low on the step line and
\* changes units to (units + direction) mod loop size; during a rotation
\* command with count n the direction is the sign of n, so no step moves the
\* other way; and while a command is in progress units changes through these
\* steps only (outside a command only the mode setter rescales it).
C19_StepMovesOneUnit ==
    [][/\ (stepPin = HIGH) <=> (pc = "high")
       /\ (stepPin' = HIGH) <=> (pc' = "high")
       /\ pc = "high" =>
             /\ cmd.op \in Rotations
             /\ dir = Sign(cmd.msteps)
             /\ stepPin' = LOW
             /\ units' = PyMod(units + Sign(cmd.msteps), loopSize)
             /\ cmd'.nStepLow = cmd.nStepLow + 1
             /\ cmd.nStepHigh = cmd'.nStepLow
       /\ units' # units => (pc = "high" \/ (pc = "idle" /\ cmd'.op = "mstepMode"))]_vars

\* the second counter-clockwise step of a command that wrapped from 0 to the
\* top of a loop of more than two positions
C19_Witness ==
    /\ pc = "low"
    /\ cmd.op \in Rotations
    /\ cmd.msteps < 0
    /\ cmd.startUnits = 0
    /\ cmd.nStepLow = 2
    /\ loopSize > 2
    /\ units = loopSize - 2
    /\ stepPin = LOW

\* rotateMsteps run on its own from position u with left steps to go, each of
\* sign sgn, in a loop of size l: <<units, result, steps made>> at its return
RECURSIVE runAlone(_, _, _, _, _, _, _)
runAlone(u, left, made, sgn, ccLimitMstep, cwLimitMstep, l) ==
    IF left = 0 THEN <<u, "True", made>>
    ELSE IF mayStep(sgn < 0, u, ccLimitMstep, cwLimitMstep)
    THEN runAlone(PyMod(u + sgn, l), left - 1, made + 1, sgn,
                  ccLimitMstep, cwLimitMstep, l)
    ELSE <<u, "False", made>>

Alone(c, l) ==
    runAlone(c.startUnits, Abs(c.msteps), 0, Sign(c.msteps), c.ccLimitMstep,
             c.cwLimitMstep, l)

\* C14: two rotation commands running at the same time on two controllers are
\* independent under every interleaving of their steps: each controller
\* returns with the units, the result and the number of steps it would have
\* running alone, and a controller whose command has returned, halted by a
\* limit or not, neither blocks nor changes the other: the other's next step
\* stays enabled and no step of one changes a field of the other.
C14_AxesIndependent ==
    [][/\ (pc' = "done" /\ cmd'.op = "rotateMsteps") =>
             <<units', cmd'.result, cmd'.nStepLow>> = Alone(cmd', loopSize)
       /\ (alt'.pc = "done" /\ alt'.cmd.op = "rotateMsteps") =>
             <<alt'.units, alt'.cmd.result, alt'.cmd.nStepLow>>
                 = Alone(alt'.cmd, altLoopSize(alt))
       /\ (pc \in {"high", "low"} /\ alt.pc \in {"high", "low"}) =>
             (alt' = alt \/ UNCHANGED motor)
       /\ pc' \in {"high", "low"} => (ENABLED (StepLow \/ StepDone))'
       /\ alt'.pc \in {"high", "low"} => (ENABLED (AltStepLow \/ AltStepDone))']_vars

\* one controller halted by its limit after one step while the other, moving
\* the other way, went on to complete two steps
C14_Witness ==
    /\ pc = "done"
    /\ cmd.result = "False"
    /\ cmd.nStepLow = 1
    /\ cmd.msteps > 0
    /\ alt.pc = "done"
    /\ alt.cmd.result = "True"
    /\ alt.cmd.nStepLow = 2
    /\ alt.cmd.msteps < 0
    /\ alt.cmd.startUnits > 0

\* C20: every rotation command terminates: under fair scheduling of the
\* pulse delays a rotateMsteps(n) command, on either controller and under
\* every interleaving with the other controller's command, never begins more
\* than |n| pulses and returns True or False; once both results are taken the
\* controller is idle again and holds no state of the command.
C20_CommandTerminates ==
    /\ [](cmd.nStepHigh <= Abs(cmd.msteps) /\ alt.cmd.nStepHigh <= Abs(alt.cmd.msteps))
    /\ (pc \in {"high", "low"}) ~> (pc = "done" /\ cmd.result \in {"True", "False"})
    /\ (alt.pc \in {"high", "low"}) ~>
          (alt.pc = "done" /\ alt.cmd.result \in {"True", "False"})
    /\ (pc # "idle" \/ alt.pc # "idle") ~>
          (pc = "idle" /\ cmd = NoCmd /\ alt.pc = "idle" /\ alt.cmd = NoCmd)

\* the controllers idle again after a round in which one command made all its
\* steps and the other was halted by a limit
C20_Witness ==
    /\ pc = "idle"
    /\ alt.pc = "idle"
    /\ cmd = NoCmd
    /\ alt.cmd = NoCmd
    /\ cmdCount = DualRounds
    /\ units # 0
    /\ alt.units # 0

\* C21: for current and target azimuths in [0, 360), calcShortestTurn returns
\* the magnitude of the shortest turn, at most 180 degrees, and the direction,
\* "cw" or "cc", in which a turn of that magnitude from currAzi reaches
\* targAzi modulo 360: "cc" whenever the shortest turn is counter-clockwise.
C21_ShortestTurnDirection ==
    ret # None =>
        LET deg == ret[1][1]
            d == ret[1][2]
            signed == IF d = "cw" THEN deg ELSE -deg
        IN  /\ deg \in 0..180
            /\ d \in {"cw", "cc"}
            /\ PyMod(call[1] + signed, 360) = call[2]

====
